---- MODULE Spec2Model ----
(***************************************************************************)
(* A model of strava_sync (src/main.py): one run of main() -- credential   *)
(* check, token refresh, paginated fetch, parse of the log file, the merge *)
(* loop of save_activities with its detail/zones enrichment calls, and the *)
(* rewrite of the log file -- followed, optionally, by a second run of     *)
(* save_activities that is fed the same batch and the same responses.      *)
(*                                                                         *)
(* Text is modelled as a sequence of tokens (strings).  A token is a       *)
(* marker "<!-- ID: n -->", the newline "\n", or a run of text that holds  *)
(* neither; the regular expression of parse_activities_file and str.strip  *)
(* work on those tokens.  Activity identifiers are JSON integers of up to  *)
(* eleven digits, so they are kept as digit sequences; str() and int() are *)
(* the conversions between a digit sequence and its decimal string.        *)
(***************************************************************************)
EXTENDS Integers, Sequences, FiniteSets, TLC

VARIABLES
    pc,                  \* where the run is: "main", "auth", "fetch", "parse", "loop", "write", "done"
    run,                 \* 1: a run of main(); 2: save_activities run again on the same inputs
    fetch_all,           \* the --all flag
    credentials,         \* all of CLIENT_ID, CLIENT_SECRET, REFRESH_TOKEN are set
    API_CALLS,           \* the global call counter
    page,                \* get_activities: the page to request next
    activities,          \* the batch get_activities returned (newest first)
    disk,                \* the log file: [exists, content]
    header,              \* save_activities: the header parse_activities_file returned
    existing_activities, \* save_activities: the ordered dict, a sequence of [id, desc]
    updates_made,        \* save_activities: the change flag
    idx,                 \* save_activities: position in reversed(activities), counted from the end
    hist                 \* what the run did so far (observations only, never read by the program)

vars == <<pc, run, fetch_all, credentials, API_CALLS, page, activities, disk,
          header, existing_activities, updates_made, idx, hist>>

-----------------------------------------------------------------------------
(* Bounds of the model *)

\* The source sets MAX_API_CALLS = 80 (src/main.py:22); the model keeps the
\* same comparisons against a smaller budget so that the pages of a full
\* history, and the records of one batch, can exhaust it.
MAX_API_CALLS == 2

\* The largest number of records the list endpoint returns in one run.
MaxBatch == 2

-----------------------------------------------------------------------------
(* Identifiers: str() and int() *)

NL == "\n"

\* str(n) for a non-negative integer given by its digits.
RECURSIVE IdStr(_)
IdStr(d) == IF d = <<>> THEN "" ELSE ToString(d[1]) \o IdStr(Tail(d))

\* The value of a digit string does not depend on its leading zeros.
RECURSIVE StripZeros(_)
StripZeros(d) ==
    IF Len(d) > 1 /\ d[1] = 0 THEN StripZeros(Tail(d)) ELSE d

RECURSIVE LexLess(_, _)
LexLess(a, b) ==
    IF a = <<>> THEN FALSE
    ELSE IF a[1] # b[1] THEN a[1] < b[1]
    ELSE LexLess(Tail(a), Tail(b))

\* a < b for two integers given by their digits.
IntLess(a, b) ==
    LET x == StripZeros(a)
        y == StripZeros(b)
    IN  IF Len(x) # Len(y) THEN Len(x) < Len(y) ELSE LexLess(x, y)

IntGeq(a, b) == ~IntLess(a, b)

\* The literal 17347409698 of format_activity and save_activities.
DETAIL_THRESHOLD == <<1, 7, 3, 4, 7, 4, 0, 9, 6, 9, 8>>

ID_OLD   == <<9>>
ID_BELOW == <<1, 7, 3, 4, 7, 4, 0, 9, 6, 9, 7>>
ID_AT    == DETAIL_THRESHOLD

\* Every digit string that occurs in a marker of a log file or as an id of a
\* record: the three ids the remote service serves, and "09" (a marker a
\* hand-edited file can carry).
IdDigits == {ID_OLD, ID_BELOW, ID_AT, <<0, 9>>}

IdStrings == {IdStr(d) : d \in IdDigits}

\* int(s) for a string of digits.
IntOf(s) == CHOOSE d \in IdDigits : IdStr(d) = s

-----------------------------------------------------------------------------
(* Dictionaries of the JSON records *)

\* dict.get(key, default)
Get(d, k, default) == IF k \in DOMAIN d THEN d[k] ELSE default

\* a.copy() followed by .update(b)
Update(a, b) ==
    [k \in DOMAIN a \cup DOMAIN b |-> IF k \in DOMAIN b THEN b[k] ELSE a[k]]

-----------------------------------------------------------------------------
(* Number formatting of the f-strings *)

\* {n:02d}
Pad2(n) == IF n < 10 THEN "0" \o ToString(n) ELSE ToString(n)

\* {m / 1000:.1f} for an integer m >= 0: one decimal, ties to even.
Fixed1OfThousandths(m) ==
    LET q == m \div 100
        r == m % 100
        tenths == IF r > 50 \/ (r = 50 /\ q % 2 = 1) THEN q + 1 ELSE q
    IN  ToString(tenths \div 10) \o "." \o ToString(tenths % 10)

\* {(b / total) * 100:.0f} for integers 0 <= b <= total, total > 0.
Percent0(b, total) ==
    LET q == (100 * b) \div total
        r == (100 * b) % total
    IN  ToString(IF 2 * r > total \/ (2 * r = total /\ q % 2 = 1) THEN q + 1 ELSE q)

-----------------------------------------------------------------------------
(* get_rpe_description, format_pace, format_activity *)

get_rpe_description(rpe) ==
    IF rpe = 0 THEN "None"
    ELSE IF rpe <= 3 THEN "Suave"
    ELSE IF rpe <= 6 THEN "Moderado"
    ELSE IF rpe <= 8 THEN "Duro"
    ELSE IF rpe <= 9 THEN "Muy duro"
    ELSE "Máximo"

\* format_pace(seconds, distance_km) with the distance given in metres:
\* pace_decimal = (seconds / 60) / (metres / 1000), in exact arithmetic.  (The
\* source computes in binary floating point and truncates, so it can print
\* one second less than this; the records of the model are chosen where the
\* two agree.)
format_pace(seconds, metres) ==
    IF metres <= 0 THEN "N/A"
    ELSE LET per_km   == (seconds * 1000) \div metres
             pace_min == per_km \div 60
             pace_sec == per_km % 60
         IN  ToString(pace_min) \o ":" \o Pad2(pace_sec)

\* strptime("%Y-%m-%dT%H:%M:%SZ") then strftime("%d/%m/%Y"); a record without
\* start_date_local gets '' and the ValueError branch keeps it.
FormatDate(activity) ==
    IF "start_date_local" \in DOMAIN activity
    THEN LET t == activity.start_date_local
         IN  Pad2(t.d) \o "/" \o Pad2(t.m) \o "/" \o ToString(t.y)
    ELSE ""

FormatTime(moving_time_seconds) ==
    IF moving_time_seconds < 3600
    THEN ToString(moving_time_seconds \div 60) \o " minutos"
    ELSE ToString(moving_time_seconds \div 3600) \o "h "
         \o ToString((moving_time_seconds % 3600) \div 60) \o "min"

\* sport_type, else type, else 'Unknown' (format_activity and save_activities).
SportType(activity) == Get(activity, "sport_type", Get(activity, "type", "Unknown"))

\* A formatter that adds the detail block to every record.
ShowDetailsAlways(activity) == TRUE

\* show_details of format_activity.
ShowDetails(activity) ==
    /\ "id" \in DOMAIN activity
    /\ StripZeros(activity.id) # <<0>>
    /\ IntGeq(activity.id, DETAIL_THRESHOLD)

\* One line of "Desglose por Km".
SplitLine(split) ==
    LET s_metres == Get(split, "distance", 1000)
        s_pace   == format_pace(Get(split, "moving_time", 0), s_metres)
        s_hr     == Get(split, "average_heartrate", 0)
        s_elev   == Get(split, "elevation_difference", 0)
    IN  "- Km " \o ToString(split.split) \o ": " \o s_pace \o "/km"
        \o (IF s_hr # 0 THEN ", " \o ToString(s_hr) \o " ppm" ELSE "")
        \o ", " \o (IF s_elev >= 0 THEN "+" ELSE "") \o ToString(s_elev) \o "m"

RECURSIVE SplitLines(_)
SplitLines(splits) ==
    IF splits = <<>> THEN <<>>
    ELSE <<NL, SplitLine(splits[1])>> \o SplitLines(Tail(splits))

RECURSIVE SumTime(_)
SumTime(buckets) ==
    IF buckets = <<>> THEN 0
    ELSE Get(buckets[1], "time", 0) + SumTime(Tail(buckets))

\* The lines of one zone type; i is the index of the first bucket of `buckets`.
RECURSIVE BucketLines(_, _, _)
BucketLines(buckets, i, total_time) ==
    IF buckets = <<>> THEN <<>>
    ELSE LET b      == buckets[1]
             b_time == Get(b, "time", 0)
             z_max  == IF b.max = -1 THEN "+" ELSE ToString(b.max)
             line   == "- Z" \o ToString(i) \o " (" \o ToString(b.min) \o "-" \o z_max
                       \o "): " \o ToString(b_time \div 60) \o "m "
                       \o ToString(b_time % 60) \o "s ("
                       \o Percent0(b_time, total_time) \o "%)"
         IN  (IF b_time = 0 THEN <<>> ELSE <<NL, line>>)
             \o BucketLines(Tail(buckets), i + 1, total_time)

ZoneBlock(zone) ==
    LET z_type  == Get(zone, "type", "")
        buckets == Get(zone, "distribution_buckets", <<>>)
        total   == SumTime(buckets)
        title   == IF z_type = "heartrate" THEN <<NL, NL, "Zonas de Frecuencia Cardíaca:">>
                   ELSE IF z_type = "pace" THEN <<NL, NL, "Zonas de Ritmo:">>
                   ELSE <<>>
    IN  IF buckets = <<>> \/ title = <<>> THEN <<>>
        ELSE IF total = 0 THEN title
        ELSE title \o BucketLines(buckets, 1, total)

RECURSIVE ZoneBlocks(_)
ZoneBlocks(zones) ==
    IF zones = <<>> THEN <<>>
    ELSE ZoneBlock(zones[1]) \o ZoneBlocks(Tail(zones))

\* The text of one activity, as tokens: the sentence, then the detail lines.
format_activity(activity) ==
    LET type_     == SportType(activity)
        metres    == Get(activity, "distance", 0)
        seconds   == Get(activity, "moving_time", 0)
        elevation == Get(activity, "total_elevation_gain", 0)
        cadence   == Get(activity, "average_cadence", 0)
        heartrate == Get(activity, "average_heartrate", 0)
        rpe       == Get(activity, "perceived_exertion", 0)
        base      == "El " \o FormatDate(activity) \o " realicé una " \o type_
                     \o " de " \o Fixed1OfThousandths(metres) \o "km en "
                     \o FormatTime(seconds) \o " con " \o ToString(elevation)
                     \o "m de desnivel. Mi ritmo medio fue de "
                     \o format_pace(seconds, metres) \o " min/km."
        cad       == IF cadence = 0 THEN ""
                     ELSE IF type_ = "Run"
                     THEN " Cadencia media: " \o ToString(cadence * 2) \o " ppm."
                     ELSE " Cadencia media: " \o ToString(cadence) \o " rpm."
        hr        == IF heartrate = 0 THEN ""
                     ELSE " Frecuencia cardíaca media: " \o ToString(heartrate) \o " ppm."
        pe        == IF rpe = 0 THEN ""
                     ELSE " Sensación: " \o get_rpe_description(rpe)
                          \o " (" \o ToString(rpe) \o "/10)."
        splits    == Get(activity, "splits_metric", <<>>)
        zones     == Get(activity, "zones", <<>>)
        details   == IF ShowDetails(activity)
                     THEN (IF splits = <<>> THEN <<>>
                           ELSE <<NL, NL, "Desglose por Km:">> \o SplitLines(splits))
                          \o ZoneBlocks(zones)
                     ELSE <<>>
    IN  <<base \o cad \o hr \o pe>> \o details

-----------------------------------------------------------------------------
(* The log file: markers, the ordered dict, parsing, sorting, writing *)

\* f"<!-- ID: {act_id} -->"
Marker(act_id) == "<!-- ID: " \o act_id \o " -->"

\* A token the pattern <!-- ID: (\d+) --> matches, and the group it captures.
IsMarker(tok) == \E s \in IdStrings : tok = Marker(s)
MarkerId(tok) == CHOOSE s \in IdStrings : tok = Marker(s)

IsSpace(tok) == tok \in {NL, " ", ""}

\* str.strip() on a text given as tokens.
RECURSIVE LStrip(_)
LStrip(t) == IF t # <<>> /\ IsSpace(t[1]) THEN LStrip(Tail(t)) ELSE t

RECURSIVE RStrip(_)
RStrip(t) ==
    IF t # <<>> /\ IsSpace(t[Len(t)]) THEN RStrip(SubSeq(t, 1, Len(t) - 1)) ELSE t

\* A parser that keeps the description as it stands between two markers.
StripNothing(t) == t

Strip(t) == RStrip(LStrip(t))

\* The ordered dict existing_activities: a sequence of [id, desc] with
\* distinct ids, in insertion order.
DictKeys(dict) == {dict[i].id : i \in 1..Len(dict)}

DictHas(dict, k) == k \in DictKeys(dict)

DictGet(dict, k) == dict[CHOOSE i \in 1..Len(dict) : dict[i].id = k].desc

\* dict[k] = v: an existing key keeps its position.
\* A list of pairs in place of a dict: every assignment adds a pair.
DictAppend(dict, k, v) == Append(dict, [id |-> k, desc |-> v])

RECURSIVE DictSet(_, _, _)
DictSet(dict, k, v) ==
    IF dict = <<>> THEN << [id |-> k, desc |-> v] >>
    ELSE IF dict[1].id = k THEN << [id |-> k, desc |-> v] >> \o Tail(dict)
    ELSE <<dict[1]>> \o DictSet(Tail(dict), k, v)

\* The index of the first marker of a text, Len + 1 when it has none.
RECURSIVE FirstMarker(_, _)
FirstMarker(t, i) ==
    IF i > Len(t) \/ IsMarker(t[i]) THEN i ELSE FirstMarker(t, i + 1)

\* The pairs of re.split: t starts with a marker.
RECURSIVE ParsePairs(_, _)
ParsePairs(t, dict) ==
    IF t = <<>> THEN dict
    ELSE LET rest == Tail(t)
             n    == FirstMarker(rest, 1)
             desc == Strip(SubSeq(rest, 1, n - 1))
         IN  ParsePairs(SubSeq(rest, n, Len(rest)), DictSet(dict, MarkerId(t[1]), desc))

\* parse_activities_file on a file that exists and can be read.
ParseContent(content) ==
    LET n == FirstMarker(content, 1)
    IN  [header     |-> SubSeq(content, 1, n - 1),
         activities |-> ParsePairs(SubSeq(content, n, Len(content)), <<>>)]

\* What parse_activities_file returns when the file is missing or unreadable.
ParseNothing == [header |-> <<>>, activities |-> <<>>]

parse_activities_file(file, readable) ==
    IF ~file.exists \/ ~readable THEN ParseNothing ELSE ParseContent(file.content)

\* The key of sorted(): int(x[0]).
SortKey(entry) == IntOf(entry.id)

\* sorted(..., reverse=True) is stable: e goes behind every entry whose key
\* is not smaller than its own.
RECURSIVE InsertSorted(_, _)
InsertSorted(sorted, e) ==
    IF sorted = <<>> THEN <<e>>
    ELSE IF IntLess(SortKey(sorted[1]), SortKey(e)) THEN <<e>> \o sorted
    ELSE <<sorted[1]>> \o InsertSorted(Tail(sorted), e)

RECURSIVE SortedFrom(_, _)
SortedFrom(items, acc) ==
    IF items = <<>> THEN acc
    ELSE SortedFrom(Tail(items), InsertSorted(acc, items[1]))

\* A writer that keeps the insertion order of the dict.
unsorted_activities(dict) == dict

sorted_activities(dict) == SortedFrom(dict, <<>>)

\* A writer that ends an entry with its line break and no blank line.
RECURSIVE EntryChunksNoBlankLine(_)
EntryChunksNoBlankLine(entries) ==
    IF entries = <<>> THEN <<>>
    ELSE << <<Marker(entries[1].id), NL>>, entries[1].desc \o <<NL>> >>
         \o EntryChunksNoBlankLine(Tail(entries))

\* The f.write calls of save_activities, in order: the header, then for each
\* entry the marker line and the description with its blank line.
RECURSIVE EntryChunks(_)
EntryChunks(entries) ==
    IF entries = <<>> THEN <<>>
    ELSE << <<Marker(entries[1].id), NL>>, entries[1].desc \o <<NL, NL>> >>
         \o EntryChunks(Tail(entries))

WriteChunks(hdr, dict) == <<hdr>> \o EntryChunks(sorted_activities(dict))

\* The content of the file after the first k writes.
RECURSIVE Concat(_, _)
Concat(chunks, k) ==
    IF k = 0 THEN <<>> ELSE Concat(chunks, k - 1) \o chunks[k]

-----------------------------------------------------------------------------
(* The remote service: the records and responses the model draws from *)

DATE == [y |-> 2026, m |-> 2, d |-> 7]

\* Summary records of the list endpoint.
RUN_OLD ==
    [id |-> ID_OLD, sport_type |-> "Run", type |-> "Run", start_date_local |-> DATE,
     distance |-> 5000, moving_time |-> 1500, total_elevation_gain |-> 10,
     average_cadence |-> 74]

\* A strength session that carries the legacy key only.
WEIGHTS_OLD ==
    [id |-> ID_OLD, type |-> "WeightTraining", start_date_local |-> DATE,
     distance |-> 0, moving_time |-> 3600, total_elevation_gain |-> 0]

RUN_BELOW ==
    [id |-> ID_BELOW, sport_type |-> "Run", type |-> "Run", start_date_local |-> DATE,
     distance |-> 0, moving_time |-> 600, total_elevation_gain |-> 0]

RIDE_AT ==
    [id |-> ID_AT, sport_type |-> "Ride", type |-> "Ride", start_date_local |-> DATE,
     distance |-> 20000, moving_time |-> 3720, total_elevation_gain |-> 120,
     average_cadence |-> 74, average_heartrate |-> 140]

WEIGHTS_AT ==
    [id |-> ID_AT, sport_type |-> "WeightTraining", type |-> "WeightTraining",
     start_date_local |-> DATE, distance |-> 0, moving_time |-> 1800,
     total_elevation_gain |-> 0]

Summaries == {RUN_OLD, WEIGHTS_OLD, RUN_BELOW, RIDE_AT, WEIGHTS_AT}

SPLITS ==
    << [split |-> 1, distance |-> 1000, moving_time |-> 300,
        average_heartrate |-> 150, elevation_difference |-> -3],
       [split |-> 2, distance |-> 500, moving_time |-> 155,
        elevation_difference |-> 4] >>

ZONES ==
    << [type |-> "heartrate",
        distribution_buckets |->
            << [min |-> 0, max |-> 120, time |-> 600],
               [min |-> 120, max |-> 150, time |-> 0],
               [min |-> 150, max |-> -1, time |-> 300] >>],
       [type |-> "pace",
        distribution_buckets |-> << [min |-> 0, max |-> 3, time |-> 0] >>] >>

\* A response of the API: the request raised inside requests.get ("conn"),
\* raise_for_status raised ("http"), or the body arrived ("ok").  "none"
\* stands for a request that was not made.
Failed(kind) == [kind |-> kind, data |-> <<>>]
Body(data)   == [kind |-> "ok", data |-> data]
NotCalled    == [kind |-> "none", data |-> <<>>]

\* The detailed record of an activity: nothing beyond the summary, or
\* perceived exertion, splits and zones.
DETAIL_SAME(id) == [id |-> id]
DETAIL_FULL(id) ==
    [id |-> id, perceived_exertion |-> 7, splits_metric |-> SPLITS, zones |-> ZONES]

DetailResponses(id) ==
    {Failed("conn"), Failed("http"), Body(DETAIL_SAME(id)), Body(DETAIL_FULL(id))}

\* (Of the two ways a request fails, the model draws both for the list and
\* detail requests and the counted one for the zones request.)
ZoneResponses == {Failed("http"), Body(ZONES)}

\* The pages the list endpoint can answer with when `room` more records fit
\* the bound of the model.
RECURSIVE SeqsUpTo(_, _)
SeqsUpTo(S, n) ==
    IF n = 0 THEN {<<>>}
    ELSE LET shorter == SeqsUpTo(S, n - 1)
         IN  shorter \cup {Append(q, x) : q \in shorter, x \in S}

PageResponses(room) ==
    {Failed("conn"), Failed("http")} \cup {Body(b) : b \in SeqsUpTo(Summaries, room)}

\* A request increments API_CALLS unless requests.get itself raised.
Counted(resp) == IF resp.kind \in {"http", "ok"} THEN 1 ELSE 0
Issued(resp)  == IF resp.kind = "none" THEN 0 ELSE 1

-----------------------------------------------------------------------------
(* The log files a run can start from *)

\* The file a complete write leaves.
FileOf(hdr, dict) ==
    LET chunks == WriteChunks(hdr, dict)
    IN  [exists |-> TRUE, content |-> Concat(chunks, Len(chunks))]

FILE_MISSING == [exists |-> FALSE, content |-> <<>>]

\* A log an earlier run wrote: the old run is stored without perceived
\* exertion, the ride with its splits and zones.
FILE_WRITTEN ==
    FileOf(<<"# Entrenamientos", NL, NL>>,
           << [id |-> IdStr(ID_OLD), desc |-> format_activity(RUN_OLD)],
              [id |-> IdStr(ID_AT),
               desc |-> format_activity(Update(RIDE_AT, DETAIL_FULL(ID_AT)))] >>)

\* A log edited by hand: not sorted, the marker of 9 twice, a marker with a
\* leading zero, and blank lines that no write of save_activities produces.
FILE_EDITED ==
    [exists |-> TRUE,
     content |->
        <<"notas", Marker(IdStr(ID_OLD)), NL, "texto viejo", NL,
          Marker("09"), "otra nota", NL, NL, NL,
          Marker(IdStr(ID_BELOW)), NL, NL>> \o format_activity(RUN_BELOW)
        \o <<NL, Marker(IdStr(ID_OLD)), NL>> \o format_activity(RUN_OLD) \o <<NL, NL>>]

StartFiles == {FILE_MISSING, FILE_WRITTEN, FILE_EDITED}

-----------------------------------------------------------------------------
(* State *)

InitHist(file) ==
    [file0         |-> file,     \* the log file when the run started
     outcome       |-> "running",\* how the run ended
     requests      |-> 0,        \* requests sent to the activity API in this run
     enrich        |-> 0,        \* of those, the detail and zones requests
     pages         |-> <<>>,     \* the responses of the list endpoint, in order
     fetch_capped  |-> FALSE,    \* get_activities stopped on the call budget
     calls_at_save |-> 0,        \* API_CALLS when save_activities was entered
     reads         |-> 0,        \* calls of parse_activities_file in this run
     read_failed   |-> FALSE,    \* parse_activities_file hit the IOError branch
     parsed        |-> <<>>,     \* the dict parse_activities_file returned
     processed     |-> <<>>,     \* the records the loop processed, in order
     budget_stop   |-> FALSE,    \* the loop stopped on the call budget
     opened        |-> FALSE,    \* open(OUTPUT_FILE, 'w') succeeded
     written       |-> 0,        \* f.write calls that completed
     write_failed  |-> FALSE,    \* the IOError branch of the write was taken
     first         |-> <<>>]     \* run 2: what run 1 left

Init ==
    /\ pc = "main"
    /\ run = 1
    /\ fetch_all \in BOOLEAN
    /\ credentials \in BOOLEAN
    /\ API_CALLS = 0
    /\ page = 1
    /\ activities = <<>>
    /\ disk \in StartFiles
    /\ header = <<>>
    /\ existing_activities = <<>>
    /\ updates_made = FALSE
    /\ idx = 0
    /\ hist = InitHist(disk)

-----------------------------------------------------------------------------
(* main: the credential check and the token refresh *)

main_credentials ==
    /\ pc = "main"
    /\ pc' = IF credentials THEN "auth" ELSE "done"
    /\ hist' = [hist EXCEPT !.outcome = IF credentials THEN @ ELSE "no_credentials"]
    /\ UNCHANGED <<run, fetch_all, credentials, API_CALLS, page, activities, disk,
                   header, existing_activities, updates_made, idx>>

\* A main that goes on to fetch whatever get_access_token returned.
FetchAnyway(token) == "fetch"

\* `if access_token:` in main: fetch with a token, end the run without one.
AfterToken(token) == IF token THEN "fetch" ELSE "done"

get_access_token ==
    /\ pc = "auth"
    /\ \E token \in BOOLEAN :
        /\ pc' = AfterToken(token)
        /\ hist' = [hist EXCEPT !.outcome = IF token THEN @ ELSE "auth_failed"]
    /\ UNCHANGED <<run, fetch_all, credentials, API_CALLS, page, activities, disk,
                   header, existing_activities, updates_made, idx>>

-----------------------------------------------------------------------------
(* get_activities: one pass of the while loop, and main's test of the result *)

\* A fetch that returns nothing when a page request fails.
DroppedOnFailure(acts, resp) ==
    IF resp.kind = "ok" THEN acts \o resp.data
    ELSE IF resp.kind = "none" THEN acts ELSE <<>>

\* A fetch of the full history that asks for the next page whatever came.
GoesOnWhileAll(batch) == fetch_all

\* Whether the while loop makes another pass: `if not batch: break`,
\* `if not fetch_all: break`; a failed request has broken out before.
GoesOn(batch) == batch # <<>> /\ fetch_all

\* The list get_activities holds after a pass: activities.extend(batch) when
\* the page arrived, the list as it was when the loop broke off.
Extended(acts, resp) == IF resp.kind = "ok" THEN acts \o resp.data ELSE acts

get_activities ==
    /\ pc = "fetch"
    /\ \E resp \in IF API_CALLS >= MAX_API_CALLS THEN {NotCalled}
                   ELSE PageResponses(MaxBatch - Len(activities)) :
        LET batch == IF resp.kind = "ok" THEN resp.data ELSE <<>>
            more  == GoesOn(batch)
            got   == Extended(activities, resp)
        IN  /\ API_CALLS' = API_CALLS + Counted(resp)
            /\ activities' = got
            /\ page' = IF more THEN page + 1 ELSE page
            /\ pc' = IF more THEN "fetch" ELSE IF got # <<>> THEN "parse" ELSE "done"
            /\ hist' = [hist EXCEPT
                  !.requests = @ + Issued(resp),
                  !.pages = IF resp.kind = "none" THEN @ ELSE Append(@, resp),
                  !.fetch_capped = (resp.kind = "none"),
                  !.outcome = IF ~more /\ got = <<>> THEN "no_activities" ELSE @,
                  !.calls_at_save = API_CALLS + Counted(resp)]
    /\ UNCHANGED <<run, fetch_all, credentials, disk, header, existing_activities,
                   updates_made, idx>>

-----------------------------------------------------------------------------
(* save_activities *)

\* The first run meets any storage and any responses; the second run meets
\* the storage and the responses of the first.
Readable == IF run = 1 /\ disk.exists THEN BOOLEAN ELSE {TRUE}

\* header, existing_activities = parse_activities_file(OUTPUT_FILE)
save_parse ==
    /\ pc = "parse"
    /\ \E readable \in Readable :
        LET parsed == parse_activities_file(disk, readable)
        IN  /\ header' = parsed.header
            /\ existing_activities' = parsed.activities
            /\ hist' = [hist EXCEPT !.reads = @ + 1,
                                    !.read_failed = ~readable,
                                    !.parsed = parsed.activities]
    /\ updates_made' = FALSE
    /\ idx' = Len(activities)
    /\ pc' = "loop"
    /\ UNCHANGED <<run, fetch_all, credentials, API_CALLS, page, activities, disk>>

\* A filter that reads sport_type alone, without the fallback to type.
ExcludedBySportTypeOnly(activity) ==
    Get(activity, "sport_type", "Unknown") = "WeightTraining"

Excluded(activity) == SportType(activity) = "WeightTraining"

\* A loop that asks for the zones of every record whose detail arrived.
WantsZonesBelowToo(activity, detail) ==
    /\ detail.kind = "ok"
    /\ DOMAIN detail.data # {}

\* if detail: ... if int(act_id) >= 17347409698: the zones request is made.
WantsZones(activity, detail) ==
    /\ detail.kind = "ok"
    /\ DOMAIN detail.data # {}
    /\ IntGeq(IntOf(IdStr(activity.id)), DETAIL_THRESHOLD)

\* A merge that formats the detail alone, so that a record whose detail
\* request failed keeps nothing but its id.
EnrichedFromDetailOnly(activity, detail, zones) ==
    IF detail.kind = "ok" /\ DOMAIN detail.data # {}
    THEN LET full == Update(activity, detail.data)
         IN  IF zones.kind = "ok" /\ zones.data # <<>>
             THEN Update(full, [zones |-> zones.data])
             ELSE full
    ELSE [id |-> activity.id]

\* full_activity: the summary, updated with the detail and the zones.
Enriched(activity, detail, zones) ==
    IF detail.kind = "ok" /\ DOMAIN detail.data # {}
    THEN LET full == Update(activity, detail.data)
         IN  IF zones.kind = "ok" /\ zones.data # <<>>
             THEN Update(full, [zones |-> zones.data])
             ELSE full
    ELSE activity

Replayed == run = 2 /\ Len(hist.processed) < Len(hist.first.processed)

DetailChoices(activity) ==
    IF Replayed THEN {hist.first.processed[Len(hist.processed) + 1].detail}
    ELSE DetailResponses(activity.id)

ZoneChoices(activity, detail) ==
    IF ~WantsZones(activity, detail) THEN {NotCalled}
    ELSE IF Replayed THEN {hist.first.processed[Len(hist.processed) + 1].zones}
    ELSE ZoneResponses

\* A merge that adds new records and never looks at the stored text.
OnlyNewChanges(dict, act_id, new_description) == ~DictHas(dict, act_id)

\* The merge of one enriched record into existing_activities.
MergeChanges(dict, act_id, new_description) ==
    ~DictHas(dict, act_id) \/ DictGet(dict, act_id) # new_description

\* A merge that starts a dict of its own with the first record that changes.
MergedIntoFresh(dict, act_id, new_description) ==
    IF MergeChanges(dict, act_id, new_description)
    THEN IF updates_made THEN DictSet(dict, act_id, new_description)
         ELSE DictSet(<<>>, act_id, new_description)
    ELSE dict

Merged(dict, act_id, new_description) ==
    IF MergeChanges(dict, act_id, new_description)
    THEN DictSet(dict, act_id, new_description)
    ELSE dict

\* The loop has not stopped: whether it goes on to the record at idx.
BudgetLeft == API_CALLS < MAX_API_CALLS

\* A loop that takes the batch in the order of the fetch.
in_fetch_order(seq) == seq

\* reversed(activities)
reversed(seq) == [i \in 1..Len(seq) |-> seq[Len(seq) + 1 - i]]

\* The positions in the batch of the records the loop visits, in its order.
LoopOrder == reversed([i \in 1..Len(activities) |-> i])

\* One pass of `for activity in reversed(activities)`, or the end of the loop;
\* idx is the number of records the loop has still to visit.
save_loop ==
    /\ pc = "loop"
    /\ IF idx = 0
       THEN /\ pc' = "write"
            /\ UNCHANGED <<API_CALLS, existing_activities, updates_made, idx, hist>>
       ELSE LET at       == LoopOrder[Len(activities) + 1 - idx]
                activity == activities[at]
                act_id   == IdStr(activity.id)
            IN  IF Excluded(activity)
                THEN /\ idx' = idx - 1
                     /\ UNCHANGED <<pc, API_CALLS, existing_activities, updates_made, hist>>
                ELSE IF ~BudgetLeft
                THEN /\ pc' = "write"
                     /\ hist' = [hist EXCEPT !.budget_stop = TRUE]
                     /\ UNCHANGED <<API_CALLS, existing_activities, updates_made, idx>>
                ELSE \E detail \in DetailChoices(activity) :
                     \E zones \in ZoneChoices(activity, detail) :
                        LET new_description ==
                                format_activity(Enriched(activity, detail, zones))
                            is_update == DictHas(existing_activities, act_id)
                            changed ==
                                MergeChanges(existing_activities, act_id, new_description)
                        IN  /\ API_CALLS' = API_CALLS + Counted(detail) + Counted(zones)
                            /\ existing_activities' =
                                    Merged(existing_activities, act_id, new_description)
                            /\ updates_made' = (updates_made \/ changed)
                            /\ idx' = idx - 1
                            /\ pc' = pc
                            /\ hist' = [hist EXCEPT
                                  !.requests = @ + Issued(detail) + Issued(zones),
                                  !.enrich = @ + Issued(detail) + Issued(zones),
                                  !.processed = Append(@,
                                      [at        |-> at,
                                       activity  |-> activity,
                                       act_id    |-> act_id,
                                       calls     |-> API_CALLS,
                                       detail    |-> detail,
                                       zones     |-> zones,
                                       text      |-> new_description,
                                       is_update |-> is_update,
                                       changed   |-> changed])]
    /\ UNCHANGED <<run, fetch_all, credentials, page, activities, disk, header>>

\* What the write can do to the file: open fails and the file is left alone;
\* open truncates it and `done` of the f.write calls complete.  A write that
\* breaks off does so at once, after the header, or before the last call.
WriteOutcomes(chunks) ==
    IF run = 2 THEN {[opened |-> TRUE, done |-> Len(chunks)]}
    ELSE {[opened |-> FALSE, done |-> 0]}
         \cup {[opened |-> TRUE, done |-> k] : k \in {0, 1, Len(chunks) - 1, Len(chunks)}}

\* A run that gives up its changes when the loop stopped on the budget.
ShouldWriteUnlessStopped == updates_made /\ ~hist.budget_stop

\* A run that writes the log whether or not anything changed.
ShouldWriteAlways == TRUE

\* `if not updates_made: return`
ShouldWrite == updates_made

\* The end of save_activities: return when nothing changed, else sort and write.
save_write ==
    /\ pc = "write"
    /\ pc' = "done"
    /\ IF ~ShouldWrite
       THEN /\ disk' = disk
            /\ hist' = [hist EXCEPT !.outcome = "no_changes"]
       ELSE LET chunks == WriteChunks(header, existing_activities)
            IN  \E w \in WriteOutcomes(chunks) :
                    /\ disk' = IF w.opened
                               THEN [exists |-> TRUE, content |-> Concat(chunks, w.done)]
                               ELSE disk
                    /\ hist' = [hist EXCEPT
                          !.opened = w.opened,
                          !.written = w.done,
                          !.write_failed = (w.done < Len(chunks)),
                          !.outcome = IF w.done < Len(chunks)
                                      THEN "write_failed" ELSE "written"]
    /\ UNCHANGED <<run, fetch_all, credentials, API_CALLS, page, activities,
                   header, existing_activities, updates_made, idx>>

-----------------------------------------------------------------------------
(* A second run of save_activities on the same batch *)

\* After a run of save_activities that met no storage error, the same batch
\* is merged again, with the call counter as it stood and every detail and
\* zones request answered as in the first run.
Rerun ==
    /\ pc = "done"
    /\ run = 1
    /\ hist.outcome \in {"no_changes", "written"}
    /\ ~hist.read_failed
    /\ run' = 2
    /\ pc' = "parse"
    /\ API_CALLS' = hist.calls_at_save
    /\ hist' = [InitHist(disk) EXCEPT
          !.calls_at_save = hist.calls_at_save,
          !.first = [processed    |-> hist.processed,
                     updates_made |-> updates_made,
                     budget_stop  |-> hist.budget_stop,
                     disk         |-> disk]]
    /\ UNCHANGED <<fetch_all, credentials, page, activities, disk, header,
                   existing_activities, updates_made, idx>>

Next ==
    \/ main_credentials
    \/ get_access_token
    \/ get_activities
    \/ save_parse
    \/ save_loop
    \/ save_write
    \/ Rerun

Spec == Init /\ [][Next]_vars

\* Every list request is answered or raises: a pass of the while loop of
\* get_activities that can be made is made.
FairSpec == Spec /\ WF_vars(get_activities)

-----------------------------------------------------------------------------
(* Observations used by the properties *)

\* The identifiers of the markers of a text, in the order of the text.
RECURSIVE MarkerIds(_)
MarkerIds(t) ==
    IF t = <<>> THEN <<>>
    ELSE (IF IsMarker(t[1]) THEN <<MarkerId(t[1])>> ELSE <<>>) \o MarkerIds(Tail(t))

\* The text in front of the first marker.
RECURSIVE TextBeforeMarkers(_)
TextBeforeMarkers(t) ==
    IF t = <<>> \/ IsMarker(t[1]) THEN <<>>
    ELSE <<t[1]>> \o TextBeforeMarkers(Tail(t))

Occurrences(ids, k) == Cardinality({i \in 1..Len(ids) : ids[i] = k})

\* The records of the batch that the filter lets through, by position.
Candidates == {i \in 1..Len(activities) : ~Excluded(activities[i])}

\* No identifier occurs twice among the records the filter lets through.
BatchIdsDistinct ==
    \A i, j \in Candidates : i # j => activities[i].id # activities[j].id

SecondRunDone == run = 2 /\ pc = "done"

-----------------------------------------------------------------------------
(* C1: idempotence of the merge *)

\* C1 as stated: when save_activities has been run a second time on the same
\* batch with the same responses, the second run detected no change, wrote
\* nothing, and the log file is what the first run left.
C1_Idempotent_AnyBatch ==
    SecondRunDone =>
        /\ ~updates_made
        /\ hist.outcome = "no_changes"
        /\ disk = hist.first.disk

\* C1 as amended: after the second run the log file is what the first run
\* left, whatever the batch; and the second run detected no change and wrote
\* nothing when no identifier occurs twice among the records of the batch
\* that are not excluded.
C1_Idempotent_DistinctIds ==
    SecondRunDone =>
        /\ disk = hist.first.disk
        /\ BatchIdsDistinct =>
              /\ ~updates_made
              /\ hist.outcome = "no_changes"
              /\ ~hist.opened

\* A second run has ended after a first run that added one record and
\* replaced the text of another.
C1_Witness ==
    /\ SecondRunDone
    /\ BatchIdsDistinct
    /\ hist.first.updates_made
    /\ Len(hist.processed) = 2
    /\ \E i, j \in 1..2 :
          /\ hist.first.processed[i].is_update
          /\ hist.first.processed[i].changed
          /\ ~hist.first.processed[j].is_update

-----------------------------------------------------------------------------
(* C2: order of the entries and the header after a write *)

\* C2: after a write that completed, the markers of the file are in
\* descending order of their identifiers read as integers, and the text in
\* front of the first marker is the header parse_activities_file returned.
C2_SortedAndHeaderKept ==
    hist.outcome = "written" =>
        LET ids == MarkerIds(disk.content)
        IN  /\ \A i, j \in 1..Len(ids) :
                  i < j => ~IntLess(IntOf(ids[i]), IntOf(ids[j]))
            /\ TextBeforeMarkers(disk.content) = header
            /\ hist.read_failed \/ header = TextBeforeMarkers(hist.file0.content)

\* A write completed on the hand-edited log, which is not sorted, with a
\* record added whose identifier is larger than all the stored ones.
C2_Witness ==
    /\ hist.outcome = "written"
    /\ run = 1
    /\ hist.file0 = FILE_EDITED
    /\ ~hist.read_failed
    /\ header = <<"notas">>
    /\ Len(MarkerIds(disk.content)) = 4
    /\ MarkerIds(disk.content)[1] = IdStr(ID_AT)

-----------------------------------------------------------------------------
(* C3: no identifier twice in a written log *)

\* C3: in every log save_activities wrote, also one whose write broke off,
\* no identifier is in two markers; after a write that completed, every
\* identifier that was parsed or processed is in exactly one marker.
C3_NoDuplicateMarkers ==
    LET ids == MarkerIds(disk.content)
    IN  /\ hist.opened => \A k \in IdStrings : Occurrences(ids, k) <= 1
        /\ hist.outcome = "written" =>
              \A k \in DictKeys(hist.parsed)
                       \cup {hist.processed[i].act_id : i \in 1..Len(hist.processed)} :
                  Occurrences(ids, k) = 1

\* A write completed where the starting log held the marker of 9 twice and
\* the batch held the record 9 twice.
C3_Witness ==
    /\ hist.outcome = "written"
    /\ run = 1
    /\ hist.file0 = FILE_EDITED
    /\ ~hist.read_failed
    /\ Occurrences(MarkerIds(hist.file0.content), IdStr(ID_OLD)) = 2
    /\ Len(hist.processed) = 2
    /\ hist.processed[1].act_id = IdStr(ID_OLD)
    /\ hist.processed[2].act_id = IdStr(ID_OLD)

-----------------------------------------------------------------------------
(* Further observations *)

ProcessedAt == {hist.processed[i].at : i \in 1..Len(hist.processed)}

\* The last record processed under an identifier.
LastProcessed(k) ==
    hist.processed[CHOOSE i \in 1..Len(hist.processed) :
        /\ hist.processed[i].act_id = k
        /\ \A j \in 1..Len(hist.processed) :
              hist.processed[j].act_id = k => j <= i]

ProcessedIds == {hist.processed[i].act_id : i \in 1..Len(hist.processed)}

RequestFailed(resp) == resp.kind \in {"conn", "http"}

\* What a reader of the log file finds in it.
LogOf(file) == ParseContent(file.content).activities

-----------------------------------------------------------------------------
(* C4: the ceiling on remote calls *)

\* C4: the requests sent to the activity API in one run (list pages, detail
\* and zones requests, answered or not) never number more than MAX_API_CALLS.
C4_RequestsWithinBudget == hist.requests <= MAX_API_CALLS

-----------------------------------------------------------------------------
(* C5: a stop on the budget keeps the work done so far *)

\* C5: when the loop stopped on the call budget and the write did not fail,
\* the run has ended in the ordinary way, it wrote the log if any processed
\* record was new or changed, and the log holds every processed identifier
\* with the text formatted for it in this run.
C5_BudgetStopCommits ==
    (pc = "done" /\ hist.budget_stop /\ ~hist.write_failed) =>
        /\ hist.outcome \in {"no_changes", "written"}
        /\ (\E i \in 1..Len(hist.processed) : hist.processed[i].changed)
              => hist.outcome = "written"
        /\ \A k \in ProcessedIds :
              /\ DictHas(LogOf(disk), k)
              /\ DictGet(LogOf(disk), k) = LastProcessed(k).text

\* The loop stopped on the budget after it had added a record, with an
\* unprocessed record left, and the log was written.
C5_Witness ==
    /\ pc = "done"
    /\ run = 1
    /\ hist.budget_stop
    /\ hist.outcome = "written"
    /\ Len(hist.processed) = 1
    /\ ~hist.processed[1].is_update
    /\ Cardinality(Candidates) = 2

-----------------------------------------------------------------------------
(* C6: the write is all or nothing *)

\* C6: when the write of the merged log failed, the log file is what it was
\* before the run.
C6_FailedWriteLeavesFile == hist.write_failed => disk = hist.file0

-----------------------------------------------------------------------------
(* C7: failures leave the stored entries alone *)

AnyFailure ==
    \/ hist.outcome \in {"no_credentials", "auth_failed", "write_failed"}
    \/ hist.read_failed
    \/ \E i \in 1..Len(hist.pages) : RequestFailed(hist.pages[i])
    \/ \E i \in 1..Len(hist.processed) :
          RequestFailed(hist.processed[i].detail) \/ RequestFailed(hist.processed[i].zones)

\* C7: after a run in which something failed, every entry the log held
\* before the run is in the log, with the text it had unless a record with
\* its identifier was fetched and merged in this run.
C7_FailuresKeepEntries ==
    (pc = "done" /\ run = 1 /\ AnyFailure) =>
        \A k \in DictKeys(LogOf(hist.file0)) :
            /\ DictHas(LogOf(disk), k)
            /\ k \in ProcessedIds
               \/ DictGet(LogOf(disk), k) = DictGet(LogOf(hist.file0), k)

-----------------------------------------------------------------------------
(* C8: a failed enrichment request does not stop the merge *)

\* C8: a record whose detail request failed is merged with the text of its
\* summary, a record whose zones request failed with the text of its summary
\* and detail; either is in the dict afterwards, and the loop goes on to
\* every older-to-newer record that follows unless the budget stops it.
C8_EnrichmentFailureNonFatal ==
    \A i \in 1..Len(hist.processed) :
        LET p == hist.processed[i]
        IN  /\ RequestFailed(p.detail) =>
                  /\ p.text = format_activity(p.activity)
                  /\ p.zones = NotCalled
            /\ (p.detail.kind = "ok" /\ RequestFailed(p.zones)) =>
                  p.text = format_activity(Update(p.activity, p.detail.data))
            /\ (RequestFailed(p.detail) \/ RequestFailed(p.zones)) =>
                  /\ DictHas(existing_activities, p.act_id)
                  /\ DictGet(existing_activities, p.act_id) = LastProcessed(p.act_id).text
                  /\ pc \in {"write", "done"} =>
                        \/ hist.budget_stop
                        \/ \A j \in Candidates : j < p.at => j \in ProcessedAt

\* The detail request of the first record failed, the zones request of the
\* second failed, both were merged and the log was written with them.
C8_Witness ==
    /\ pc = "done"
    /\ run = 1
    /\ hist.outcome = "written"
    /\ Len(hist.processed) = 2
    /\ RequestFailed(hist.processed[1].detail)
    /\ hist.processed[2].detail.kind = "ok"
    /\ RequestFailed(hist.processed[2].zones)
    /\ DictHas(LogOf(disk), hist.processed[1].act_id)
    /\ DictHas(LogOf(disk), hist.processed[2].act_id)
    /\ hist.processed[1].act_id # hist.processed[2].act_id

-----------------------------------------------------------------------------
(* C9: update detection *)

\* The step of save_loop that merged a record.
MergedARecord == pc = "loop" /\ Len(hist'.processed) = Len(hist.processed) + 1

\* C9: when a record whose identifier is in the dict is merged, the stored
\* text is replaced by the freshly formatted text and the run is marked
\* changed if the two differ; if they are equal the dict and the change flag
\* stay as they were.  No other entry is touched.
C9_UpdateDetection ==
    [][MergedARecord =>
          LET p == hist'.processed[Len(hist'.processed)]
              k == p.act_id
          IN  DictHas(existing_activities, k) =>
                /\ DictGet(existing_activities, k) # p.text =>
                      /\ DictGet(existing_activities', k) = p.text
                      /\ updates_made'
                /\ DictGet(existing_activities, k) = p.text =>
                      /\ existing_activities' = existing_activities
                      /\ updates_made' = updates_made
                /\ \A other \in DictKeys(existing_activities) \ {k} :
                      /\ DictHas(existing_activities', other)
                      /\ DictGet(existing_activities', other)
                            = DictGet(existing_activities, other)]_vars

\* In one run the stored text of 9 was compared with an equal text and left
\* alone, and the stored text of the ride, which had its splits and zones,
\* was replaced by a text that has the zones only.
C9_Witness ==
    /\ pc = "write"
    /\ run = 1
    /\ hist.file0 = FILE_WRITTEN
    /\ ~hist.read_failed
    /\ DictGet(hist.parsed, IdStr(ID_AT))
          = format_activity(Update(RIDE_AT, DETAIL_FULL(ID_AT)))
    /\ Len(hist.processed) = 2
    /\ \E i, j \in 1..2 :
          /\ hist.processed[i].activity = RUN_OLD
          /\ hist.processed[i].is_update
          /\ ~hist.processed[i].changed
          /\ hist.processed[j].activity = RIDE_AT
          /\ hist.processed[j].detail = Body(DETAIL_SAME(ID_AT))
          /\ hist.processed[j].zones = Body(ZONES)
          /\ hist.processed[j].is_update
          /\ hist.processed[j].changed
    /\ DictGet(existing_activities, IdStr(ID_OLD)) = DictGet(hist.parsed, IdStr(ID_OLD))
    /\ DictGet(existing_activities, IdStr(ID_AT))
          = format_activity(Update(RIDE_AT, [zones |-> ZONES]))
    /\ updates_made

-----------------------------------------------------------------------------
(* C10: the excluded category *)

IsWeightTraining(activity) ==
    Get(activity, "sport_type", Get(activity, "type", "Unknown")) = "WeightTraining"

\* The identifiers the batch carries on WeightTraining records only.
OnlyExcludedIds ==
    {IdStr(activities[i].id) : i \in {j \in 1..Len(activities) : IsWeightTraining(activities[j])}}
    \ {IdStr(activities[i].id) : i \in {j \in 1..Len(activities) : ~IsWeightTraining(activities[j])}}

SameEntry(dict, before, k) ==
    /\ DictHas(dict, k) <=> DictHas(before, k)
    /\ DictHas(dict, k) => DictGet(dict, k) = DictGet(before, k)

\* C10: no WeightTraining record is ever enriched or merged; an identifier
\* the batch carries on such records only is in the dict, and in the written
\* log, exactly if it was parsed from the log, and with the parsed text.
C10_ExcludedNeverLogged ==
    pc \in {"loop", "write", "done"} =>
        /\ \A i \in 1..Len(hist.processed) : ~IsWeightTraining(hist.processed[i].activity)
        /\ \A k \in OnlyExcludedIds :
              /\ SameEntry(existing_activities, hist.parsed, k)
              /\ hist.outcome = "written" => SameEntry(LogOf(disk), hist.parsed, k)

\* A first sync wrote the log from a batch of a strength session and a run,
\* and a later run met the strength session that carries only the legacy
\* key under an identifier the log already held.
C10_Witness ==
    /\ pc = "done"
    /\ hist.outcome = "written"
    /\ \/ /\ hist.file0 = FILE_MISSING
          /\ activities = <<WEIGHTS_AT, RUN_BELOW>>
          /\ MarkerIds(disk.content) = <<IdStr(ID_BELOW)>>
       \/ /\ hist.file0 = FILE_WRITTEN
          /\ ~hist.read_failed
          /\ activities = <<WEIGHTS_OLD, RUN_BELOW>>
          /\ DictGet(LogOf(disk), IdStr(ID_OLD)) = format_activity(RUN_OLD)

-----------------------------------------------------------------------------
(* C11: no write when nothing changed *)

\* No processed record was new or had a text that differs from the stored one.
NothingChanged == \A i \in 1..Len(hist.processed) : ~hist.processed[i].changed

\* C11: a run in which no processed record was new or changed opens the log
\* for no write and leaves it as it was when the run started; and the log is
\* opened for writing, and changes, only in the one step that ends
\* save_activities, after the merge loop.
C11_NoWriteWithoutChange ==
    /\ [](pc = "done" /\ NothingChanged =>
              /\ ~hist.opened
              /\ hist.written = 0
              /\ disk = hist.file0)
    /\ [][(disk' # disk \/ (hist'.opened /\ ~hist.opened)) =>
              /\ pc = "write"
              /\ pc' = "done"
              /\ ~hist.opened]_vars

\* Both records of the batch were in the log, both were formatted to the
\* stored text, and the run ended without a write.
C11_Witness ==
    /\ pc = "done"
    /\ run = 1
    /\ hist.file0 = FILE_WRITTEN
    /\ ~hist.read_failed
    /\ Len(hist.processed) = 2
    /\ \A i \in 1..2 : hist.processed[i].is_update /\ ~hist.processed[i].changed
    /\ hist.processed[1].act_id # hist.processed[2].act_id
    /\ hist.outcome = "no_changes"
    /\ disk = FILE_WRITTEN

-----------------------------------------------------------------------------
(* C12: entries that were not replaced keep their bytes *)

\* The entries of a text under an identifier: each runs from a marker of the
\* identifier to the next marker or the end of the text.
Segments(t, k) ==
    {SubSeq(t, i, FirstMarker(t, i + 1) - 1) :
        i \in {j \in 1..Len(t) : IsMarker(t[j]) /\ MarkerId(t[j]) = k}}

\* The identifiers whose text was replaced, or added, in this run.
ReplacedIds ==
    {hist.processed[i].act_id : i \in {j \in 1..Len(hist.processed) : hist.processed[j].changed}}

\* An entry in the form the writer gives it: the marker line, a description
\* with no white space around it, one blank line.
Canonical(seg) == seg = <<seg[1], NL>> \o Strip(Tail(seg)) \o <<NL, NL>>

\* C12 as stated: after a rewrite of the log, every
\* identifier that was parsed and not replaced has in the new file one entry,
\* and that entry has the bytes of an entry it had in the file that was read.
C12_UnchangedBytes_AnyFile ==
    hist.outcome = "written" =>
        \A k \in DictKeys(hist.parsed) \ ReplacedIds :
            /\ Cardinality(Segments(disk.content, k)) = 1
            /\ Segments(disk.content, k) \subseteq Segments(hist.file0.content, k)

\* C12 as amended: after a rewrite, every identifier that was parsed and not
\* replaced has one entry, made of its marker line, the description that was
\* parsed for it and a blank line; so an identifier that had one entry in the
\* file that was read, in the form the writer gives it, keeps its bytes.
C12_UnchangedText_CanonicalBytes ==
    hist.outcome = "written" =>
        \A k \in DictKeys(hist.parsed) \ ReplacedIds :
            /\ Segments(disk.content, k)
                  = { <<Marker(k), NL>> \o DictGet(hist.parsed, k) \o <<NL, NL>> }
            /\ (\E seg \in Segments(hist.file0.content, k) :
                    /\ Segments(hist.file0.content, k) = {seg}
                    /\ Canonical(seg))
                  => Segments(disk.content, k) = Segments(hist.file0.content, k)

\* A log that an earlier run wrote was rewritten with a record added, and
\* the two entries it held were not replaced.
C12_Witness ==
    /\ hist.outcome = "written"
    /\ run = 1
    /\ hist.file0 = FILE_WRITTEN
    /\ ~hist.read_failed
    /\ ReplacedIds = {IdStr(ID_BELOW)}
    /\ Segments(disk.content, IdStr(ID_OLD)) = Segments(FILE_WRITTEN.content, IdStr(ID_OLD))
    /\ Segments(disk.content, IdStr(ID_AT)) = Segments(FILE_WRITTEN.content, IdStr(ID_AT))
    /\ Len(MarkerIds(disk.content)) = 3

-----------------------------------------------------------------------------
(* C13: a page request that fails *)

PageFailed == \E i \in 1..Len(hist.pages) : RequestFailed(hist.pages[i])

\* The records of the pages that arrived, in the order of the pages.
RECURSIVE PagesData(_)
PagesData(pages) ==
    IF pages = <<>> THEN <<>>
    ELSE (IF pages[1].kind = "ok" THEN pages[1].data ELSE <<>>) \o PagesData(Tail(pages))

\* C13: when a page request of a full-history fetch has failed, it is the
\* last list request of the run, get_activities has returned the records of
\* all pages before it, and, if there are any, save_activities was entered
\* with them and the run does not end as a run without activities.
C13_PageFailureKeepsPages ==
    (run = 1 /\ fetch_all /\ PageFailed) =>
        LET n == Len(hist.pages)
        IN  /\ RequestFailed(hist.pages[n])
            /\ \A i \in 1..(n - 1) : hist.pages[i].kind = "ok" /\ hist.pages[i].data # <<>>
            /\ activities = PagesData(SubSeq(hist.pages, 1, n - 1))
            /\ IF n > 1
               THEN /\ pc \in {"parse", "loop", "write", "done"}
                    /\ hist.outcome # "no_activities"
                    /\ pc # "parse" => hist.reads = 1
                    /\ pc = "done" => hist.outcome \in {"no_changes", "written", "write_failed"}
               ELSE /\ pc = "done"
                    /\ hist.outcome = "no_activities"

\* The second page of a full-history fetch failed, and the record of the
\* first page was merged and written to the log.
C13_Witness ==
    /\ run = 1
    /\ fetch_all
    /\ Len(hist.pages) = 2
    /\ hist.pages[1].kind = "ok"
    /\ RequestFailed(hist.pages[2])
    /\ Len(activities) = 1
    /\ Len(hist.processed) = 1
    /\ hist.processed[1].activity = activities[1]
    /\ hist.outcome = "written"
    /\ DictHas(LogOf(disk), hist.processed[1].act_id)

-----------------------------------------------------------------------------
(* C14: a run without credentials or without a token *)

\* C14: a run that ended for missing credentials or a failed token refresh
\* has ended, sent no list, detail or zones request, never called
\* parse_activities_file, never opened the log for writing, and the log is
\* what it was when the run started.
C14_AuthFailureTouchesNothing ==
    hist.outcome \in {"no_credentials", "auth_failed"} =>
        /\ pc = "done"
        /\ hist.requests = 0
        /\ API_CALLS = 0
        /\ hist.pages = <<>>
        /\ hist.processed = <<>>
        /\ hist.reads = 0
        /\ ~hist.opened
        /\ hist.written = 0
        /\ disk = hist.file0

\* The credentials were there, the token refresh failed, and the run ended
\* with the log an earlier run wrote still in place.
C14_Witness ==
    /\ pc = "done"
    /\ credentials
    /\ hist.outcome = "auth_failed"
    /\ hist.file0 = FILE_WRITTEN
    /\ disk = FILE_WRITTEN

-----------------------------------------------------------------------------
(* C15: the detail threshold *)

SplitTitle == "Desglose por Km:"
HeartrateTitle == "Zonas de Frecuencia Cardíaca:"
PaceTitle == "Zonas de Ritmo:"

HasLine(text, line) == \E i \in 1..Len(text) : text[i] = line

\* The record has a zone of the type with at least one bucket.
HasZoneOfType(data, z_type) ==
    LET zones == Get(data, "zones", <<>>)
    IN  \E i \in 1..Len(zones) :
            /\ Get(zones[i], "type", "") = z_type
            /\ Get(zones[i], "distribution_buckets", <<>>) # <<>>

\* C15: for every record the loop processed, with `data` the record that was
\* formatted and `text` what format_activity made of it: below the threshold
\* no zones request was made and the text is the sentence alone, whatever
\* splits and zones the data carries; at or above it the text has the split
\* section exactly if the data has splits, and the section of a zone type
\* exactly if the data has zones of the type.
C15_ThresholdGating ==
    \A i \in 1..Len(hist.processed) :
        LET p    == hist.processed[i]
            data == Enriched(p.activity, p.detail, p.zones)
        IN  IF IntLess(p.activity.id, DETAIL_THRESHOLD)
            THEN /\ p.zones = NotCalled
                 /\ Len(p.text) = 1
                 /\ ~HasLine(p.text, SplitTitle)
                 /\ ~HasLine(p.text, HeartrateTitle)
                 /\ ~HasLine(p.text, PaceTitle)
            ELSE /\ HasLine(p.text, SplitTitle)
                       <=> Get(data, "splits_metric", <<>>) # <<>>
                 /\ HasLine(p.text, HeartrateTitle) <=> HasZoneOfType(data, "heartrate")
                 /\ HasLine(p.text, PaceTitle) <=> HasZoneOfType(data, "pace")

\* The record 9, which is below the threshold as a number and above it as a
\* string, was formatted from a detail that carries splits and zones, and
\* its text is the sentence alone.
C15_Witness ==
    /\ run = 1
    /\ Len(hist.processed) = 1
    /\ hist.processed[1].activity = RUN_OLD
    /\ hist.processed[1].detail = Body(DETAIL_FULL(ID_OLD))
    /\ hist.processed[1].zones = NotCalled
    /\ Len(hist.processed[1].text) = 1
    /\ hist.outcome = "written"
    /\ ~HasLine(disk.content, SplitTitle)

-----------------------------------------------------------------------------
(* C16: enrichment of every processed record *)

Requested(resp) == resp.kind # "none"

AtOrAbove(activity) == IntGeq(activity.id, DETAIL_THRESHOLD)

\* The detail and zones requests of the first n processed records.
RECURSIVE EnrichRequests(_)
EnrichRequests(n) ==
    IF n = 0 THEN 0
    ELSE EnrichRequests(n - 1)
         + (IF Requested(hist.processed[n].detail) THEN 1 ELSE 0)
         + (IF Requested(hist.processed[n].zones) THEN 1 ELSE 0)

\* C16 as stated: for every record the loop processed, new or in the log, a
\* detail request was made, and a zones request as well if its identifier is
\* at or above the threshold.
C16_DetailAndZonesRequested ==
    \A i \in 1..Len(hist.processed) :
        LET p == hist.processed[i]
        IN  /\ Requested(p.detail)
            /\ AtOrAbove(p.activity) => Requested(p.zones)

\* C16 as amended: for every record the loop processed, new or in the log, a
\* detail request was made; a zones request was made exactly if the
\* identifier is at or above the threshold and the detail request returned
\* data; these are all the detail and zones requests of the run, and the text
\* that was compared is formatted from the record they enriched.
C16_DetailAlways_ZonesAfterDetail ==
    /\ \A i \in 1..Len(hist.processed) :
          LET p == hist.processed[i]
          IN  /\ Requested(p.detail)
              /\ Requested(p.zones) <=>
                    /\ AtOrAbove(p.activity)
                    /\ p.detail.kind = "ok"
                    /\ DOMAIN p.detail.data # {}
              /\ p.text = format_activity(Enriched(p.activity, p.detail, p.zones))
    /\ hist.enrich = EnrichRequests(Len(hist.processed))

\* The ride came twice in the batch: as a new record its detail request
\* failed and no zones request followed; as a record of the log its detail
\* arrived and the zones request was made.
C16_Witness ==
    /\ run = 1
    /\ hist.file0 = FILE_MISSING
    /\ Len(hist.processed) = 2
    /\ hist.processed[1].activity = RIDE_AT
    /\ ~hist.processed[1].is_update
    /\ RequestFailed(hist.processed[1].detail)
    /\ ~Requested(hist.processed[1].zones)
    /\ hist.processed[2].activity = RIDE_AT
    /\ hist.processed[2].is_update
    /\ hist.processed[2].detail.kind = "ok"
    /\ Requested(hist.processed[2].zones)
    /\ hist.enrich = 3

-----------------------------------------------------------------------------
(* C17: the merge removes no entry *)

\* C17: every identifier that was parsed is in the dict of the merge, and in
\* the log once it is written; an identifier that was parsed and is not among
\* the processed records has there the text that was parsed for it.
C17_MergeKeepsParsedEntries ==
    \A k \in DictKeys(hist.parsed) :
        /\ pc \in {"loop", "write", "done"} =>
              /\ DictHas(existing_activities, k)
              /\ k \notin ProcessedIds =>
                    DictGet(existing_activities, k) = DictGet(hist.parsed, k)
        /\ hist.outcome = "written" =>
              /\ DictHas(LogOf(disk), k)
              /\ k \notin ProcessedIds =>
                    DictGet(LogOf(disk), k) = DictGet(hist.parsed, k)

\* The hand-edited log was rewritten with the ride added; of its three
\* identifiers one came in the batch and was not reached for the budget, the
\* other two did not come, and all three kept their text.
C17_Witness ==
    /\ run = 1
    /\ hist.outcome = "written"
    /\ hist.file0 = FILE_EDITED
    /\ ~hist.read_failed
    /\ hist.budget_stop
    /\ ProcessedIds = {IdStr(ID_AT)}
    /\ activities[1] = RUN_BELOW
    /\ DictKeys(hist.parsed) = {IdStr(ID_OLD), "09", IdStr(ID_BELOW)}
    /\ DictKeys(LogOf(disk)) = DictKeys(hist.parsed) \cup {IdStr(ID_AT)}
    /\ \A k \in DictKeys(hist.parsed) : DictGet(LogOf(disk), k) = DictGet(hist.parsed, k)

-----------------------------------------------------------------------------
(* C18: oldest first *)

\* C18: the loop processes records from the end of the fetched batch towards
\* its start; a record is processed only if every record the filter lets
\* through that stands behind it in the batch was processed; a loop that was
\* not stopped processed all of them, and a loop stopped on the budget left
\* unprocessed a record and only records in front of every processed one.
C18_OldestFirst ==
    /\ \A i, j \in 1..Len(hist.processed) :
          i < j => hist.processed[i].at > hist.processed[j].at
    /\ \A i \in 1..Len(hist.processed) :
          /\ hist.processed[i].at \in Candidates
          /\ hist.processed[i].activity = activities[hist.processed[i].at]
    /\ \A a \in ProcessedAt : \A c \in Candidates : c > a => c \in ProcessedAt
    /\ (pc \in {"write", "done"} /\ hist.reads = 1) =>
          IF hist.budget_stop
          THEN /\ Candidates \ ProcessedAt # {}
               /\ \A c \in Candidates \ ProcessedAt : \A a \in ProcessedAt : c < a
          ELSE ProcessedAt = Candidates

\* Of a batch of the ride (newer) and a run (older) the run was processed
\* and the budget stopped the loop before the ride.
C18_Witness ==
    /\ pc = "done"
    /\ run = 1
    /\ activities = <<RIDE_AT, RUN_BELOW>>
    /\ hist.budget_stop
    /\ Len(hist.processed) = 1
    /\ hist.processed[1].at = 2
    /\ hist.processed[1].activity = RUN_BELOW
    /\ ProcessedAt = {2}

-----------------------------------------------------------------------------
(* C19: the end of the pagination *)

FetchEnded == pc \in {"parse", "loop", "write", "done"} /\ hist.pages # <<>>

EmptyPage(resp) == resp.kind = "ok" /\ resp.data = <<>>

\* In a run: at most one list request in recent-only mode; in full-history
\* mode every list request but the last brought a page with records, and
\* when get_activities has returned, the last page was empty, or failed, or
\* the loop stopped on the call counter; no mode sends more list requests
\* than MAX_API_CALLS.
PagesStopInTime ==
    run = 1 =>
        LET n == Len(hist.pages)
        IN  /\ n <= MAX_API_CALLS
            /\ ~fetch_all => n <= 1
            /\ \A i \in 1..(n - 1) : hist.pages[i].kind = "ok" /\ hist.pages[i].data # <<>>
            /\ hist.fetch_capped => API_CALLS >= MAX_API_CALLS
            /\ (FetchEnded /\ fetch_all) =>
                  \/ EmptyPage(hist.pages[n])
                  \/ RequestFailed(hist.pages[n])
                  \/ hist.fetch_capped /\ hist.calls_at_save >= MAX_API_CALLS

\* C19: get_activities, once entered, returns; and its list requests stop in
\* time: one request in recent-only mode, and in full-history mode no request
\* after the first empty page, after the first failed page, or when the call
\* counter has reached MAX_API_CALLS.
C19_PaginationTerminates ==
    /\ (pc = "fetch") ~> (pc # "fetch")
    /\ []PagesStopInTime
    /\ [][Len(hist'.pages) > Len(hist.pages) =>
              /\ pc = "fetch"
              /\ API_CALLS < MAX_API_CALLS]_vars

\* A full-history fetch got a page with a record for every request the
\* budget allows and stopped on the call counter.
C19_Witness ==
    /\ run = 1
    /\ fetch_all
    /\ FetchEnded
    /\ hist.fetch_capped
    /\ Len(hist.pages) = MAX_API_CALLS
    /\ \A i \in 1..Len(hist.pages) : hist.pages[i].kind = "ok" /\ hist.pages[i].data # <<>>
    /\ Len(activities) = MAX_API_CALLS

====
